---- MODULE Spec2Model ----
(***************************************************************************)
(* Model of src/demo.py, the battery cell monitor dashboard.               *)
(*                                                                         *)
(* The script is re-executed from top to bottom on every user interaction. *)
(* One action of the model is one interaction together with the script     *)
(* run(s) it triggers, up to and including the final render (a handler     *)
(* that ends in st.rerun() starts a second run with no widget event).      *)
(*                                                                         *)
(* Numbers are fixed point:                                                *)
(*   voltage, min_voltage, max_voltage   tenths of a volt    (3.2 V = 32)  *)
(*   current                             hundredths of an A  (5.0 A = 500) *)
(*   capacity                            hundredths of an Ah (16.0 = 1600) *)
(*   temp                                tenths of a degree  (25.0 = 250)  *)
(***************************************************************************)
EXTENDS Integers, Sequences, FiniteSets

VARIABLES
    cells_data,   \* st.session_state.cells_data: insertion-ordered dict, as a
                  \* sequence of [key, val] entries
    cell_types,   \* st.session_state.cell_types: list of "lfp" / "nmc"
    step,         \* st.session_state.step: 1 (setup) or 2 (monitor)
    quick_stats,  \* what the sidebar "Quick Stats" of the last render shows
    rng,          \* state of the random module's generator
    edits         \* number of current changes made so far (bounds the model)

vars == <<cells_data, cell_types, step, quick_stats, rng, edits>>

\* The cap on the number of cells (disabled= of the Add Cell button).
MaxCells == 8

\* Bound of the model: how many times a current is changed in one behaviour.
MaxEdits == 1

\* Values typed into a "Current (A)" number_input (min 0.0, max 100.0),
\* in hundredths of an ampere: 0.0, 1.23, 5.0.
CurrentInputs == {0, 123, 500}

\* The options of the cell type selectbox.
cell_type_options == {"Select cell type...", "LFP", "NMC"}

----------------------------------------------------------------------------
(* Pure helpers *)

\* str.lower() on the selectbox options.
Lower(s) ==
    CASE s = "LFP" -> "lfp"
      [] s = "NMC" -> "nmc"
      [] OTHER -> "select cell type..."

\* random.random(): the generator is deterministic, its output in [0, 1)
\* is a function of its state and each call advances the state.  The model
\* keeps a cycle of three sample outputs, in thousandths: 0.0 (the least
\* output), 0.498 and 0.997 (close to the supremum); the seed, which is the
\* position in the cycle when the session starts, is arbitrary.
RandomStream == <<0, 498, 997>>

random(g) == RandomStream[g]

NextRng(g) == (g % Len(RandomStream)) + 1

\* Mutant of uniform: the width of the range taken to be b instead of b - a.
uniform_FullWidth(a, b, g) == a * 1000 + b * random(g)

\* random.uniform(a, b) = a + (b - a) * random(); a, b in whole units, the
\* result in thousandths.
uniform(a, b, g) == a * 1000 + (b - a) * random(g)

\* round(x, 1) of a non-negative x given in thousandths; result in tenths.
\* (No sample is an exact tie.)
Round1(x) == (x + 50) \div 100

\* round(x, 2) of a non-negative x given in thousandths; result in
\* hundredths.  voltage * current is even, so a tie (last digit 5) cannot
\* occur.
Round2(x) == (x + 5) \div 10

\* dict[key] = val on an insertion-ordered dict: an existing key keeps its
\* position, a new key goes last.
DictSet(d, k, v) ==
    IF \E i \in 1..Len(d) : d[i].key = k
        THEN [i \in 1..Len(d) |-> IF d[i].key = k THEN [key |-> k, val |-> v] ELSE d[i]]
        ELSE Append(d, [key |-> k, val |-> v])

RECURSIVE SumCapacity(_)
\* sum([cell['capacity'] for cell in cells_data.values()])
SumCapacity(d) ==
    IF d = <<>> THEN 0 ELSE d[1].val.capacity + SumCapacity(Tail(d))

\* The sidebar's Quick Stats block: rendered only when cells_data is
\* non-empty, from cells_data as it is when the sidebar runs.
NoStats == [shown |-> FALSE, total_cells |-> 0, total_capacity |-> 0]

QuickStats(d) ==
    IF d = <<>>
        THEN NoStats
        ELSE [shown |-> TRUE, total_cells |-> Len(d), total_capacity |-> SumCapacity(d)]

\* Mutant of NewCell: the NMC voltage limits taken from the LFP preset.
NewCell_LfpLimits(cell_type, g) ==
    [ voltage     |-> IF cell_type = "lfp" THEN 32 ELSE 36,
      current     |-> 0,
      temp        |-> Round1(uniform(25, 40, g)),
      capacity    |-> 0,
      min_voltage |-> 28,
      max_voltage |-> 36,
      type        |-> cell_type ]

\* The record built for a new cell.
NewCell(cell_type, g) ==
    [ voltage     |-> IF cell_type = "lfp" THEN 32 ELSE 36,
      current     |-> 0,
      temp        |-> Round1(uniform(25, 40, g)),
      capacity    |-> 0,
      min_voltage |-> IF cell_type = "lfp" THEN 28 ELSE 32,
      max_voltage |-> IF cell_type = "lfp" THEN 36 ELSE 40,
      type        |-> cell_type ]

\* cell_key = f"cell_{n}_{cell_type}"
CellKey(n, cell_type) == [n |-> n, cell_type |-> cell_type]

\* Mutant of UpdateCurrents: the current is stored, the capacity is not
\* recomputed.
UpdateCurrents_StaleCapacity(d, idx, new_current) ==
    [i \in 1..Len(d) |->
        IF i = idx /\ new_current # d[i].val.current
            THEN [d[i] EXCEPT !.val.current = new_current]
            ELSE d[i]]

\* Mutant of UpdateCurrents: every number_input returns the new value (one
\* widget key shared by all cells).
UpdateCurrents_AllCells(d, idx, new_current) ==
    [i \in 1..Len(d) |->
        IF new_current # d[i].val.current
            THEN [d[i] EXCEPT !.val.current = new_current,
                              !.val.capacity = Round2(d[i].val.voltage * new_current)]
            ELSE d[i]]

\* The per-cell loop of step 2, where the number_input of the cell at
\* position idx returns new_current and every other one returns the stored
\* current of its cell.
UpdateCurrents(d, idx, new_current) ==
    [i \in 1..Len(d) |->
        IF i = idx /\ new_current # d[i].val.current
            THEN [d[i] EXCEPT !.val.current = new_current,
                              !.val.capacity = Round2(d[i].val.voltage * new_current)]
            ELSE d[i]]

----------------------------------------------------------------------------
(* State after the first script run of a session *)

InitSession == [cells_data |-> <<>>, cell_types |-> <<>>, step |-> 1]

Session == [cells_data |-> cells_data, cell_types |-> cell_types, step |-> step]

Init ==
    /\ cells_data = InitSession.cells_data
    /\ cell_types = InitSession.cell_types
    /\ step = InitSession.step
    /\ quick_stats = QuickStats(InitSession.cells_data)
    /\ rng \in 1..Len(RandomStream)
    /\ edits = 0

----------------------------------------------------------------------------
(* User interactions *)

\* Mutant of ResetAll: cell_types is not cleared.
ResetAll_KeepTypes ==
    /\ cells_data' = <<>>
    /\ step' = 1
    /\ quick_stats' = QuickStats(cells_data')
    /\ UNCHANGED <<cell_types, rng, edits>>

\* "Reset All": clears the session state and reruns.
ResetAll ==
    /\ cells_data' = <<>>
    /\ cell_types' = <<>>
    /\ step' = 1
    /\ quick_stats' = QuickStats(cells_data')
    /\ UNCHANGED <<rng, edits>>

\* The effect of an enabled "Add Cell" click.
AppendCell(selected_type) ==
    LET cell_type == Lower(selected_type)
        types     == Append(cell_types, cell_type)
        cell_key  == CellKey(Len(types), cell_type)
    IN  /\ cell_types' = types
        /\ cells_data' = DictSet(cells_data, cell_key, NewCell(cell_type, rng))
        /\ rng' = NextRng(rng)
        /\ quick_stats' = QuickStats(cells_data')
        /\ UNCHANGED <<step, edits>>

\* Mutant of AddCell: the button is disabled only while no type is selected.
AddCell_NoCap(selected_type) ==
    /\ step = 1
    /\ IF selected_type = "Select cell type..."
         THEN UNCHANGED vars
         ELSE AppendCell(selected_type)

\* Mutant of AddCell: the button is rendered in both steps.
AddCell_AnyStep(selected_type) ==
    IF selected_type = "Select cell type..." \/ Len(cell_types) >= MaxCells
        THEN UNCHANGED vars
        ELSE AppendCell(selected_type)

\* "Add Cell" with the selectbox at selected_type.  The button exists in
\* step 1 only; a click on the disabled button does nothing.
AddCell(selected_type) ==
    /\ step = 1
    /\ IF selected_type = "Select cell type..." \/ Len(cell_types) >= MaxCells
         THEN UNCHANGED vars
         ELSE AppendCell(selected_type)

\* Mutant of Continue: the button is rendered outside the
\* "if st.session_state.cell_types" block.
Continue_Unguarded ==
    /\ step = 1
    /\ step' = 2
    /\ quick_stats' = QuickStats(cells_data)
    /\ UNCHANGED <<cells_data, cell_types, rng, edits>>

\* "Continue to Monitoring Dashboard": rendered in step 1 under
\* "if st.session_state.cell_types".
Continue ==
    /\ step = 1
    /\ cell_types # <<>>
    /\ step' = 2
    /\ quick_stats' = QuickStats(cells_data)
    /\ UNCHANGED <<cells_data, cell_types, rng, edits>>

\* Mutant of Back: going back also discards the cell records.
Back_Clearing ==
    /\ step = 2
    /\ step' = 1
    /\ cells_data' = <<>>
    /\ quick_stats' = QuickStats(cells_data')
    /\ UNCHANGED <<cell_types, rng, edits>>

\* "Back to Cell Setup": rendered in step 2.
Back ==
    /\ step = 2
    /\ step' = 1
    /\ quick_stats' = QuickStats(cells_data)
    /\ UNCHANGED <<cells_data, cell_types, rng, edits>>

\* The user changes the "Current (A)" number_input of the cell at position
\* idx to new_current (a widget reruns the script only when its value
\* changes).  In that run the sidebar is rendered before the loop that
\* stores the new current, and no rerun follows.
SetCurrent(idx, new_current) ==
    /\ step = 2
    /\ idx \in 1..Len(cells_data)
    /\ new_current # cells_data[idx].val.current
    /\ edits < MaxEdits
    /\ edits' = edits + 1
    /\ quick_stats' = QuickStats(cells_data)
    /\ cells_data' = UpdateCurrents(cells_data, idx, new_current)
    /\ UNCHANGED <<cell_types, step, rng>>

Next ==
    \/ ResetAll
    \/ \E selected_type \in cell_type_options : AddCell(selected_type)
    \/ Continue
    \/ Back
    \/ \E idx \in 1..MaxCells, new_current \in CurrentInputs : SetCurrent(idx, new_current)

Spec == Init /\ [][Next]_vars

----------------------------------------------------------------------------
(* Properties *)

\* The cell records, in order.
Cells == [i \in 1..Len(cells_data) |-> cells_data[i].val]

\* The fields of a cell that are fixed when it is created.
Fixed(e) ==
    [ key |-> e.key, type |-> e.val.type, voltage |-> e.val.voltage,
      min_voltage |-> e.val.min_voltage, max_voltage |-> e.val.max_voltage,
      temp |-> e.val.temp ]

\* C1: the session never holds more than 8 cells, and an Add Cell click
\* while 8 cells exist leaves the cells and the step as they are.
C1_CellCap ==
    /\ [](Len(cell_types) <= MaxCells /\ Len(cells_data) <= MaxCells)
    /\ [][\A selected_type \in cell_type_options :
            (AddCell(selected_type) /\ Len(cell_types) >= MaxCells)
                => UNCHANGED <<cells_data, cell_types, step>>]_vars

\* C1 witness: the eighth cell has been added and the setup page is shown.
C1_Witness ==
    step = 1 /\ Len(cell_types) = MaxCells /\ Len(cells_data) = MaxCells

\* C2: from any state, Reset All leads to the state of a fresh session: no
\* cell records, no cell types, step 1, no Quick Stats shown.
C2_ResetToInitial ==
    [][ResetAll => (Session' = InitSession /\ quick_stats' = QuickStats(InitSession.cells_data))]_vars

\* C2 witness: a fresh-looking session in which a current was changed
\* before, which only a reset out of the monitor reaches.
C2_Witness ==
    edits > 0 /\ Session = InitSession /\ ~quick_stats.shown

\* C3: Continue and Back change the step and leave the cell records and
\* the cell types untouched.
C3_PhaseFrame ==
    [][(Continue \/ Back) => (step' # step /\ UNCHANGED <<cells_data, cell_types>>)]_vars

\* C3 witness: back on the setup page with a cell whose current was set in
\* the monitor.
C3_Witness ==
    step = 1 /\ \E i \in 1..Len(cells_data) : cells_data[i].val.current # 0

\* C4: every stored capacity is round(voltage * current, 2) of the stored
\* current.
C4_CapacityConsistent ==
    \A i \in 1..Len(cells_data) :
        Cells[i].capacity = Round2(Cells[i].voltage * Cells[i].current)

\* C4 witness: an NMC cell at 1.23 A, whose capacity 4.428 is stored
\* rounded up to 4.43.
C4_Witness ==
    \E i \in 1..Len(cells_data) :
        Cells[i].type = "nmc" /\ Cells[i].current = 123 /\ Cells[i].capacity = 443

\* C5: whenever cells exist, the Total Capacity shown by the last render is
\* the sum of the capacities stored at the end of that render.
C5_TotalCapacityFresh ==
    cells_data # <<>> =>
        quick_stats.shown /\ quick_stats.total_capacity = SumCapacity(cells_data)

\* C6 as stated: every cell's temperature t satisfies 25 <= t < 40.
C6_TempBelow40 ==
    \A i \in 1..Len(cells_data) : 250 <= Cells[i].temp /\ Cells[i].temp < 400

\* C6 as amended: every cell's temperature t satisfies 25 <= t <= 40.
C6_TempUpTo40 ==
    \A i \in 1..Len(cells_data) : 250 <= Cells[i].temp /\ Cells[i].temp <= 400

\* C6 witness: a cell whose draw, below 40, was rounded to 40.0.
C6_Witness ==
    \E i \in 1..Len(cells_data) : Cells[i].temp = 400

\* What C7 says an added cell of the given kind looks like, apart from its
\* temperature.
Preset(kind) ==
    IF kind = "LFP"
        THEN [type |-> "lfp", voltage |-> 32, min_voltage |-> 28, max_voltage |-> 36]
        ELSE [type |-> "nmc", voltage |-> 36, min_voltage |-> 32, max_voltage |-> 40]

\* C7: an enabled Add Cell of kind LFP (NMC) puts a cell with the LFP (NMC)
\* preset, current 0 and capacity 0 last, and leaves the cells before it
\* unchanged.
C7_AddCellPreset ==
    [][\A kind \in {"LFP", "NMC"} :
        (AddCell(kind) /\ Len(cell_types) < MaxCells) =>
            LET n == Len(cells_data)
                c == cells_data'[n + 1].val
            IN  /\ Len(cells_data') = n + 1
                /\ SubSeq(cells_data', 1, n) = cells_data
                /\ cell_types' = Append(cell_types, Preset(kind).type)
                /\ c.type = Preset(kind).type
                /\ c.voltage = Preset(kind).voltage
                /\ c.min_voltage = Preset(kind).min_voltage
                /\ c.max_voltage = Preset(kind).max_voltage
                /\ c.current = 0
                /\ c.capacity = 0]_vars

\* C7 witness: an NMC cell added after an LFP cell.
C7_Witness ==
    /\ Len(cells_data) >= 2
    /\ Cells[1].type = "lfp" /\ Cells[1].min_voltage = 28
    /\ Cells[2].type = "nmc" /\ Cells[2].max_voltage = 40

\* C8: setting the current of one cell changes nothing but that cell's
\* current and capacity; and as long as a cell exists its key, kind,
\* voltages and temperature stay what they were.
C8_SetCurrentFrame ==
    [][/\ \A idx \in 1..Len(cells_data), new_current \in CurrentInputs :
            SetCurrent(idx, new_current) =>
                /\ Len(cells_data') = Len(cells_data)
                /\ UNCHANGED <<cell_types, step>>
                /\ \A j \in 1..Len(cells_data) :
                    /\ Fixed(cells_data'[j]) = Fixed(cells_data[j])
                    /\ j # idx => cells_data'[j] = cells_data[j]
       /\ \A j \in 1..Len(cells_data) :
            j <= Len(cells_data') => Fixed(cells_data'[j]) = Fixed(cells_data[j])]_vars

\* C8 witness: in the monitor, the second of several cells carries a
\* current and the first is still at 0.
C8_Witness ==
    /\ step = 2
    /\ Len(cells_data) >= 3
    /\ Cells[1].current = 0
    /\ Cells[2].current = 500

\* C9: the monitor is never shown without a cell.
C9_MonitorHasCells ==
    step = 2 => (cells_data # <<>> /\ cell_types # <<>>)

\* C9 witness: the monitor shown with a single cell.
C9_Witness ==
    step = 2 /\ Len(cells_data) = 1 /\ Len(cell_types) = 1

\* C10: Add Cell and Continue are available in step 1 only, the current
\* inputs and Back in step 2 only, Reset All always; cells are added only
\* in step 1 and a current changes only in step 2.
C10_PhaseGating ==
    /\ [](/\ (ENABLED (\E selected_type \in cell_type_options : AddCell(selected_type))) => step = 1
          /\ (ENABLED Continue) => step = 1
          /\ (ENABLED (\E idx \in 1..MaxCells, new_current \in CurrentInputs :
                          SetCurrent(idx, new_current))) => step = 2
          /\ (ENABLED Back) => step = 2
          /\ ENABLED ResetAll)
    /\ [][/\ (Len(cells_data') > Len(cells_data) \/ Len(cell_types') > Len(cell_types))
                => step = 1
          /\ (\E j \in 1..Len(cells_data) :
                j <= Len(cells_data') /\ cells_data'[j].val.current # cells_data[j].val.current)
                => step = 2]_vars

\* C10 witness: cells were added on the setup page and the last one was
\* given a current in the monitor.
C10_Witness ==
    /\ step = 2
    /\ Len(cells_data) = 2
    /\ Cells[2].current = 123

====
